---- MODULE Spec2Model ----
(***************************************************************************)
(* Model of the cosmoscrow escrow contract                                 *)
(* (contracts/cosmoscrow/src/{state,contract,error,msg}.rs).               *)
(*                                                                         *)
(* The persisted state is the id counter, the escrow table and the three   *)
(* address indexes.  Every execute entry point is one atomic action.  The   *)
(* last call, the storage it started from and what it returned (error      *)
(* kind, attributes, bank messages) are kept in `call`, `before` and        *)
(* `response`, so that a state shows the whole of the last transition.      *)
(***************************************************************************)
EXTENDS Integers, Sequences, FiniteSets, Bags, TLC

(***************************************************************************)
(* Bounds                                                                  *)
(***************************************************************************)
\* number of escrows that may be created (caps ESCROW_COUNTER)
MaxEscrows == 1
\* block time runs over 1..MaxTime
MaxTime == 2
\* number of escrows that may be created in the specification of several
\* escrows, SpecMany
MaxMany == 2

(***************************************************************************)
(* Input universes                                                         *)
(***************************************************************************)
\* Well-formed addresses, listed in ascending order of Addr's Ord (the
\* lexicographic order of the underlying strings).
AddrOrder == <<"alice", "bob", "carol">>

Addrs == {AddrOrder[i] : i \in 1..Len(AddrOrder)}

\* A string that fails address validation.
Malformed == "x"

\* Option<T> is a sequence of length at most one.
None == <<>>

Some(x) == <<x>>

Coin(amount, denom) == [denom |-> denom, amount |-> amount]

GoodFunds == <<Coin(1000, "ujuno")>>

\* info.funds of a CreateEscrow: nothing, a zero coin, one positive coin,
\* two denominations.
FundsChoices ==
    { <<>>,
      <<Coin(0, "ujuno")>>,
      GoodFunds,
      <<Coin(1000, "ujuno"), Coin(5, "uatom")>> }

Descriptions == {"Test escrow"}

\* info.sender of a CreateEscrow
Creators == {"alice", "bob"}

Beneficiaries == {"bob"}

\* CreateEscrow calls that pass every check: every assignment of addresses
\* to the three approver slots.
WellFormedCalls ==
    [ funds : {GoodFunds}, beneficiary : Beneficiaries,
      approver1 : Addrs, approver2 : Addrs,
      approver3 : {None} \cup {Some(a) : a \in Addrs},
      description : Descriptions ]

\* CreateEscrow calls that fail: bad funds with a well-formed or malformed
\* beneficiary, and good funds with one malformed address.
FaultyCalls ==
    [ funds : FundsChoices \ {GoodFunds}, beneficiary : {"bob", Malformed},
      approver1 : {"alice"}, approver2 : {"bob"}, approver3 : {None},
      description : Descriptions ]
    \cup
    { c \in [ funds : {GoodFunds}, beneficiary : {"bob", Malformed},
              approver1 : {"alice", Malformed}, approver2 : {"bob", Malformed},
              approver3 : {Some("carol"), Some(Malformed)},
              description : Descriptions ] :
        Cardinality({f \in {"beneficiary", "approver1", "approver2"} :
                        c[f] = Malformed}
                    \cup {f \in {"approver3"} : c[f] = Some(Malformed)}) = 1 }

EscrowIds == 1..MaxEscrows

\* The CreateEscrow calls of SpecMany: alice or bob deposits for bob, with
\* approver slots (alice, bob) or (bob, bob).  bob can so be creator,
\* beneficiary and approver of one escrow, alice creator and approver, and
\* carol takes no part.
ManyCalls ==
    [ funds : {GoodFunds}, beneficiary : {"bob"},
      approver1 : {"alice", "bob"}, approver2 : {"bob"}, approver3 : {None},
      description : Descriptions ]

\* The failing CreateEscrow calls of SpecMany: no funds, and a malformed
\* beneficiary.
ManyFaultyCalls ==
    {c \in FaultyCalls :
        \/ c.funds = <<>> /\ c.beneficiary = "bob"
        \/ c.funds = GoodFunds /\ c.beneficiary = Malformed}

\* Who sends which of them: alice either call, bob the one that names bob
\* alone.  So an escrow has alice as creator and approver, as creator only,
\* or not at all.
ManyCreates == {sc \in Creators \X ManyCalls : sc[1] = "alice" \/ sc[2].approver1 = "bob"}

ManyIds == 1..MaxMany

\* The senders of ApproveRelease and CancelEscrow in SpecMany: the two
\* addresses that hold a role in some escrow.
ManySenders == {"alice", "bob"}

(***************************************************************************)
(* State                                                                   *)
(***************************************************************************)
VARIABLES
    ESCROW_COUNTER,          \* Item<u64>
    ESCROWS,                 \* Map<u64, Escrow>
    ESCROWS_BY_CREATOR,      \* Map<&Addr, Vec<u64>>
    ESCROWS_BY_BENEFICIARY,  \* Map<&Addr, Vec<u64>>
    ESCROWS_BY_APPROVER,     \* Map<&Addr, Vec<u64>>
    block_time,              \* env.block.time.seconds()
    call,                    \* the last entry-point call: env, info and msg
    before,                  \* the storage that call started from
    response,                \* what that call returned
    ledger                   \* bag of the bank messages handed to the chain

vars == <<ESCROW_COUNTER, ESCROWS, ESCROWS_BY_CREATOR, ESCROWS_BY_BENEFICIARY,
          ESCROWS_BY_APPROVER, block_time, call, before, response, ledger>>

storage == <<ESCROW_COUNTER, ESCROWS, ESCROWS_BY_CREATOR,
             ESCROWS_BY_BENEFICIARY, ESCROWS_BY_APPROVER>>

\* the persisted state as one value
Snapshot ==
    [ counter |-> ESCROW_COUNTER, escrows |-> ESCROWS,
      by_creator |-> ESCROWS_BY_CREATOR,
      by_beneficiary |-> ESCROWS_BY_BENEFICIARY,
      by_approver |-> ESCROWS_BY_APPROVER ]

(***************************************************************************)
(* Sequence helpers for Vec<T>                                             *)
(***************************************************************************)
Range(s) == {s[i] : i \in 1..Len(s)}

\* Vec::contains
Contains(s, x) == \E i \in 1..Len(s) : s[i] = x

\* a retain that drops every element
RetainNe_nothing(s, x) == <<>>

\* Vec::retain(|&id| id != x)
RECURSIVE RetainNe(_, _)
RetainNe(s, x) ==
    IF s = <<>> THEN <<>>
    ELSE IF Head(s) # x THEN <<Head(s)>> \o RetainNe(Tail(s), x)
    ELSE RetainNe(Tail(s), x)

\* Ord for Addr
AddrRank(a) == CHOOSE i \in 1..Len(AddrOrder) : AddrOrder[i] = a

AddrLe(a, b) == AddrRank(a) <= AddrRank(b)

RECURSIVE SortedInsert(_, _)
SortedInsert(x, s) ==
    IF s = <<>> THEN <<x>>
    ELSE IF AddrLe(x, Head(s)) THEN <<x>> \o s
    ELSE <<Head(s)>> \o SortedInsert(x, Tail(s))

\* Vec::sort
RECURSIVE Sort(_)
Sort(s) == IF s = <<>> THEN <<>> ELSE SortedInsert(Head(s), Sort(Tail(s)))

\* Vec::dedup : removes consecutive repeated elements
RECURSIVE Dedup(_)
Dedup(s) ==
    IF Len(s) <= 1 THEN s
    ELSE IF s[1] = s[2] THEN Dedup(Tail(s))
    ELSE <<s[1]>> \o Dedup(Tail(s))

(***************************************************************************)
(* state.rs : impl Escrow                                                  *)
(***************************************************************************)
\* is_approver that admits every address
is_approver_anyone(escrow, addr) == TRUE

is_approver(escrow, addr) ==
    \/ escrow.approver1 = addr
    \/ escrow.approver2 = addr
    \/ escrow.approver3 = Some(addr)

\* has_approved with the lookup left out
has_approved_skipped(escrow, addr) == FALSE

has_approved(escrow, addr) == Contains(escrow.approvals, addr)

\* vec![&approver1, &approver2] (+ approver3), sorted and deduplicated
unique_approvers(escrow) ==
    Dedup(Sort(<<escrow.approver1, escrow.approver2>> \o escrow.approver3))

\* required_approvals with unanimity for three distinct approvers
required_approvals_unanimous(escrow) ==
    Len(unique_approvers(escrow))

\* required_approvals with a single approval sufficing for two approvers
required_approvals_any_one(escrow) ==
    LET n == Len(unique_approvers(escrow)) IN
    CASE n = 0 -> 0
      [] n = 1 -> 1
      [] n = 2 -> 1
      [] OTHER -> 2

required_approvals(escrow) ==
    LET n == Len(unique_approvers(escrow)) IN
    CASE n = 0 -> 0
      [] n = 1 -> 1
      [] n = 2 -> 2
      [] OTHER -> 2

total_approvers(escrow) == Len(unique_approvers(escrow))

\* can_be_released with a strict comparison
can_be_released_strict(escrow) ==
    /\ ~escrow.is_completed
    /\ Len(escrow.approvals) > required_approvals(escrow)

can_be_released(escrow) ==
    /\ ~escrow.is_completed
    /\ Len(escrow.approvals) >= required_approvals(escrow)

(***************************************************************************)
(* Storage helpers (cw_storage_plus Map)                                   *)
(***************************************************************************)
\* Map::save
MapSave(m, k, v) == [x \in (DOMAIN m) \cup {k} |-> IF x = k THEN v ELSE m[x]]

\* existing.unwrap_or_default() inside Map::update on a Vec-valued map
LoadOrDefault(m, k) == IF k \in DOMAIN m THEN m[k] ELSE <<>>

\* deps.api.addr_validate
addr_validate(s) == s \in Addrs

(***************************************************************************)
(* contract.rs : update_escrow_indexes                                     *)
(***************************************************************************)
\* the closure without its removing branch
index_ids_plain_never_removes(ids, id, add) ==
    IF add THEN Append(ids, id) ELSE ids

\* closure of the creator and beneficiary index updates
index_ids_plain(ids, id, add) ==
    IF add THEN Append(ids, id) ELSE RetainNe(ids, id)

\* closure of the approver index update
index_ids_approver(ids, id, add) ==
    IF add
    THEN (IF ~Contains(ids, id) THEN Append(ids, id) ELSE ids)
    ELSE RetainNe(ids, id)

\* update_approver_index that stops after the first approver
update_approver_index_first_only(m, approvers, id, add) ==
    IF approvers = <<>> THEN m
    ELSE MapSave(m, Head(approvers),
                 index_ids_approver(LoadOrDefault(m, Head(approvers)), id, add))

\* for approver in unique_approvers.into_iter() { ESCROWS_BY_APPROVER.update(..) }
RECURSIVE update_approver_index(_, _, _, _)
update_approver_index(m, approvers, id, add) ==
    IF approvers = <<>> THEN m
    ELSE update_approver_index(
             MapSave(m, Head(approvers),
                     index_ids_approver(LoadOrDefault(m, Head(approvers)), id, add)),
             Tail(approvers), id, add)

update_escrow_indexes(by_creator, by_beneficiary, by_approver, escrow, add) ==
    [ by_creator |->
          MapSave(by_creator, escrow.creator,
                  index_ids_plain(LoadOrDefault(by_creator, escrow.creator),
                                  escrow.id, add)),
      by_beneficiary |->
          MapSave(by_beneficiary, escrow.beneficiary,
                  index_ids_plain(LoadOrDefault(by_beneficiary, escrow.beneficiary),
                                  escrow.id, add)),
      by_approver |->
          update_approver_index(by_approver, unique_approvers(escrow),
                                escrow.id, add) ]

(***************************************************************************)
(* Calls and responses                                                     *)
(***************************************************************************)
\* env.block.time, MessageInfo { sender, funds } and the ExecuteMsg
Call(now, sender, funds, msg) ==
    [time |-> now, sender |-> sender, funds |-> funds, msg |-> msg]

\* ExecuteMsg::CreateEscrow
CreateEscrowMsg(beneficiary, approver1, approver2, approver3, description) ==
    [ type |-> "CreateEscrow", beneficiary |-> beneficiary,
      approver1 |-> approver1, approver2 |-> approver2, approver3 |-> approver3,
      description |-> description ]

\* ExecuteMsg::ApproveRelease
ApproveReleaseMsg(escrow_id) == [type |-> "ApproveRelease", escrow_id |-> escrow_id]

\* ExecuteMsg::CancelEscrow
CancelEscrowMsg(escrow_id) == [type |-> "CancelEscrow", escrow_id |-> escrow_id]

Attr(k, v) == [key |-> k, value |-> v]

\* BankMsg::Send { to_address, amount: vec![coin] }
BankSend(to, coin) == [to_address |-> to, amount |-> <<coin>>]

\* Coin's Display: "{amount}{denom}"
CoinToString(c) == ToString(c.amount) \o c.denom

\* Ok(Response)
OkResponse(attrs, msgs) ==
    [result |-> "Ok", attributes |-> attrs, messages |-> msgs]

\* Err(ContractError): no Response, hence no attributes and no messages
ErrResponse(err) == [result |-> err, attributes |-> <<>>, messages |-> <<>>]

\* the bag of the messages of a response as the chain receives them, each
\* with the ExecuteMsg that produced it
Dispatched(c, resp) ==
    LET n == Len(resp.messages)
        entries == {[cause |-> c.msg, send |-> resp.messages[i]] : i \in 1..n}
    IN [e \in entries |-> Cardinality({i \in 1..n : resp.messages[i] = e.send})]

(***************************************************************************)
(* contract.rs : instantiate                                               *)
(***************************************************************************)
Init ==
    /\ ESCROW_COUNTER = 0
    /\ ESCROWS = <<>>
    /\ ESCROWS_BY_CREATOR = <<>>
    /\ ESCROWS_BY_BENEFICIARY = <<>>
    /\ ESCROWS_BY_APPROVER = <<>>
    /\ block_time = 1
    /\ call = Call(1, "alice", <<>>, [type |-> "Instantiate"])
    /\ before = [ counter |-> 0, escrows |-> <<>>, by_creator |-> <<>>,
                  by_beneficiary |-> <<>>, by_approver |-> <<>> ]
    /\ response = OkResponse(<<>>, <<>>)
    /\ ledger = EmptyBag

(***************************************************************************)
(* contract.rs : execute_create_escrow                                     *)
(***************************************************************************)
\* create_error whose funds check only rejects an empty funds list
create_error_nonempty(funds, beneficiary, approver1, approver2, approver3) ==
    IF Len(funds) = 0 THEN "InsufficientFunds"
    ELSE IF funds[1].amount = 0 THEN "InsufficientFunds"
    ELSE IF ~addr_validate(beneficiary) THEN "Std(GenericErr)"
    ELSE IF ~addr_validate(approver1) THEN "Std(GenericErr)"
    ELSE IF ~addr_validate(approver2) THEN "Std(GenericErr)"
    ELSE IF approver3 # None /\ ~addr_validate(approver3[1]) THEN "Std(GenericErr)"
    ELSE "Ok"

\* the early returns of execute_create_escrow, in source order; a failed
\* addr_validate is a StdError::GenericErr, converted by `?` into
\* ContractError::Std
create_error(funds, beneficiary, approver1, approver2, approver3) ==
    IF Len(funds) # 1 THEN "InsufficientFunds"
    ELSE IF funds[1].amount = 0 THEN "InsufficientFunds"
    ELSE IF ~addr_validate(beneficiary) THEN "Std(GenericErr)"
    ELSE IF ~addr_validate(approver1) THEN "Std(GenericErr)"
    ELSE IF ~addr_validate(approver2) THEN "Std(GenericErr)"
    ELSE IF approver3 # None /\ ~addr_validate(approver3[1]) THEN "Std(GenericErr)"
    ELSE "Ok"

new_escrow(id, sender, funds, beneficiary, approver1, approver2, approver3, description, now) ==
    [ id |-> id,
      creator |-> sender,
      beneficiary |-> beneficiary,
      amount |-> funds[1],
      approver1 |-> approver1,
      approver2 |-> approver2,
      approver3 |-> approver3,
      description |-> description,
      approvals |-> <<>>,
      is_completed |-> FALSE,
      created_at |-> now,
      completed_at |-> None ]

\* the update closure that keeps the counter as it is
next_escrow_id_unchanged(counter) == counter

\* ESCROW_COUNTER.update(|id| Ok(id + 1)) : the value stored and returned
next_escrow_id(counter) == counter + 1

\* execute_create_escrow that takes the next id before it validates the
\* addresses
execute_create_escrow_id_first(sender, funds, beneficiary, approver1, approver2, approver3, description) ==
    LET err == create_error(funds, beneficiary, approver1, approver2, approver3) IN
    /\ call' = Call(block_time, sender, funds,
                    CreateEscrowMsg(beneficiary, approver1, approver2, approver3,
                                    description))
    /\ before' = Snapshot
    /\ response' = ErrResponse(err)
    /\ ESCROW_COUNTER' = IF err = "Std(GenericErr)"
                         THEN next_escrow_id(ESCROW_COUNTER)
                         ELSE ESCROW_COUNTER
    /\ err # "Ok"
    /\ UNCHANGED <<ESCROWS, ESCROWS_BY_CREATOR, ESCROWS_BY_BENEFICIARY,
                   ESCROWS_BY_APPROVER, block_time, ledger>>

execute_create_escrow(sender, funds, beneficiary, approver1, approver2, approver3, description) ==
    LET err == create_error(funds, beneficiary, approver1, approver2, approver3) IN
    /\ call' = Call(block_time, sender, funds,
                    CreateEscrowMsg(beneficiary, approver1, approver2, approver3,
                                    description))
    /\ before' = Snapshot
    /\ IF err # "Ok"
       THEN /\ response' = ErrResponse(err)
            /\ UNCHANGED <<storage, block_time>>
       ELSE LET escrow_id == next_escrow_id(ESCROW_COUNTER)
                escrow == new_escrow(escrow_id, sender, funds, beneficiary,
                                     approver1, approver2, approver3, description,
                                     block_time)
                idx == update_escrow_indexes(ESCROWS_BY_CREATOR,
                           ESCROWS_BY_BENEFICIARY, ESCROWS_BY_APPROVER, escrow, TRUE)
            IN /\ ESCROW_COUNTER' = escrow_id
               /\ ESCROWS' = MapSave(ESCROWS, escrow_id, escrow)
               /\ ESCROWS_BY_CREATOR' = idx.by_creator
               /\ ESCROWS_BY_BENEFICIARY' = idx.by_beneficiary
               /\ ESCROWS_BY_APPROVER' = idx.by_approver
               /\ response' = OkResponse(
                      << Attr("method", "create_escrow"),
                         Attr("escrow_id", ToString(escrow_id)),
                         Attr("creator", sender),
                         Attr("beneficiary", beneficiary),
                         Attr("amount", CoinToString(funds[1])),
                         Attr("description", description) >>,
                      <<>>)
               /\ UNCHANGED block_time
    /\ ledger' = ledger (+) Dispatched(call', response')

CreateEscrow ==
    \/ /\ ESCROW_COUNTER < MaxEscrows
       /\ \E sender \in Creators, c \in WellFormedCalls :
              execute_create_escrow(sender, c.funds, c.beneficiary, c.approver1,
                                    c.approver2, c.approver3, c.description)
    \/ /\ \E c \in FaultyCalls :
              execute_create_escrow("alice", c.funds, c.beneficiary, c.approver1,
                                    c.approver2, c.approver3, c.description)
       /\ ESCROW_COUNTER' <= MaxEscrows

(***************************************************************************)
(* contract.rs : execute_approve_release                                   *)
(***************************************************************************)
\* approve_error with the authorization check ahead of the completion check
approve_error_auth_first(escrow, sender) ==
    IF ~is_approver(escrow, sender) THEN "Unauthorized"
    ELSE IF escrow.is_completed THEN "EscrowCompleted"
    ELSE IF has_approved(escrow, sender) THEN "AlreadyApproved"
    ELSE "Ok"

\* approve_error that turns the creator away
approve_error_no_self_approve(escrow, sender) ==
    IF escrow.is_completed THEN "EscrowCompleted"
    ELSE IF ~is_approver(escrow, sender) THEN "Unauthorized"
    ELSE IF has_approved(escrow, sender) THEN "AlreadyApproved"
    ELSE IF escrow.creator = sender THEN "CannotSelfApprove"
    ELSE "Ok"

\* the early returns after the record is loaded, in source order
\* approve_error that looks for a duplicate approval before anything else
approve_error_duplicate_first(escrow, sender) ==
    IF has_approved(escrow, sender) THEN "AlreadyApproved"
    ELSE IF escrow.is_completed THEN "EscrowCompleted"
    ELSE IF ~is_approver(escrow, sender) THEN "Unauthorized"
    ELSE "Ok"

\* approve_error without the completion check
approve_error_reopened(escrow, sender) ==
    IF ~is_approver(escrow, sender) THEN "Unauthorized"
    ELSE IF has_approved(escrow, sender) THEN "AlreadyApproved"
    ELSE "Ok"

approve_error(escrow, sender) ==
    IF escrow.is_completed THEN "EscrowCompleted"
    ELSE IF ~is_approver(escrow, sender) THEN "Unauthorized"
    ELSE IF has_approved(escrow, sender) THEN "AlreadyApproved"
    ELSE "Ok"

\* escrow.approvals.push(info.sender.clone())
push_approval(escrow, sender) ==
    [escrow EXCEPT !.approvals = Append(@, sender)]

\* a release that stamps the time and leaves is_completed as it was
mark_released_unflagged(escrow, now) ==
    [escrow EXCEPT !.completed_at = Some(now)]

\* the record part of the body of `if escrow.can_be_released()`
mark_released(escrow, now) ==
    [escrow EXCEPT !.is_completed = TRUE, !.completed_at = Some(now)]

\* the record saved by a successful approve
approved_escrow(escrow, sender, now) ==
    LET pushed == push_approval(escrow, sender) IN
    IF can_be_released(pushed) THEN mark_released(pushed, now) ELSE pushed

\* the messages a successful approve adds to its response
release_messages(escrow, sender) ==
    LET pushed == push_approval(escrow, sender) IN
    IF can_be_released(pushed)
    THEN <<BankSend(pushed.beneficiary, pushed.amount)>>
    ELSE <<>>

approve_attributes(escrow, sender) ==
    LET pushed == push_approval(escrow, sender) IN
    << Attr("method", "approve_release"),
       Attr("escrow_id", ToString(escrow.id)),
       Attr("approver", sender),
       Attr("total_approvals", ToString(Len(pushed.approvals))) >>
    \o (IF can_be_released(pushed)
        THEN << Attr("released", "true"),
                Attr("released_to", pushed.beneficiary),
                Attr("amount_released", CoinToString(pushed.amount)) >>
        ELSE <<>>)

execute_approve_release(sender, escrow_id) ==
    /\ call' = Call(block_time, sender, <<>>, ApproveReleaseMsg(escrow_id))
    /\ before' = Snapshot
    /\ IF escrow_id \notin DOMAIN ESCROWS
       THEN /\ response' = ErrResponse("Std(NotFound)")
            /\ UNCHANGED <<storage, block_time>>
       ELSE LET escrow == ESCROWS[escrow_id]
                err == approve_error(escrow, sender) IN
            IF err # "Ok"
            THEN /\ response' = ErrResponse(err)
                 /\ UNCHANGED <<storage, block_time>>
            ELSE /\ ESCROWS' = MapSave(ESCROWS, escrow_id,
                                       approved_escrow(escrow, sender, block_time))
                 /\ response' = OkResponse(approve_attributes(escrow, sender),
                                           release_messages(escrow, sender))
                 /\ UNCHANGED <<ESCROW_COUNTER, ESCROWS_BY_CREATOR,
                                ESCROWS_BY_BENEFICIARY, ESCROWS_BY_APPROVER,
                                block_time>>
    /\ ledger' = ledger (+) Dispatched(call', response')

ApproveRelease ==
    \E sender \in Addrs, escrow_id \in EscrowIds :
        execute_approve_release(sender, escrow_id)

(***************************************************************************)
(* contract.rs : execute_cancel_escrow                                     *)
(***************************************************************************)
\* cancel_error without the check for recorded approvals
cancel_error_ignores_approvals(escrow, sender) ==
    IF escrow.creator # sender THEN "Unauthorized"
    ELSE IF escrow.is_completed THEN "EscrowCompleted"
    ELSE "Ok"

\* the early returns after the record is loaded, in source order
\* cancel_error without the completion check
cancel_error_repeatable(escrow, sender) ==
    IF escrow.creator # sender THEN "Unauthorized"
    ELSE IF escrow.approvals # <<>> THEN "Unauthorized"
    ELSE "Ok"

\* cancel_error that looks at completion before it looks at the caller
cancel_error_completed_first(escrow, sender) ==
    IF escrow.is_completed THEN "EscrowCompleted"
    ELSE IF escrow.creator # sender THEN "Unauthorized"
    ELSE IF escrow.approvals # <<>> THEN "Unauthorized"
    ELSE "Ok"

cancel_error(escrow, sender) ==
    IF escrow.creator # sender THEN "Unauthorized"
    ELSE IF escrow.is_completed THEN "EscrowCompleted"
    ELSE IF escrow.approvals # <<>> THEN "Unauthorized"
    ELSE "Ok"

\* escrow.is_completed = true
\* a cancellation that stamps the record as a release does
cancelled_escrow_stamped(escrow) ==
    [escrow EXCEPT !.is_completed = TRUE, !.completed_at = Some(escrow.created_at)]

cancelled_escrow(escrow) == [escrow EXCEPT !.is_completed = TRUE]

refund_messages(escrow) == <<BankSend(escrow.creator, escrow.amount)>>

execute_cancel_escrow(sender, escrow_id) ==
    /\ call' = Call(block_time, sender, <<>>, CancelEscrowMsg(escrow_id))
    /\ before' = Snapshot
    /\ IF escrow_id \notin DOMAIN ESCROWS
       THEN /\ response' = ErrResponse("Std(NotFound)")
            /\ UNCHANGED <<storage, block_time>>
       ELSE LET escrow == ESCROWS[escrow_id]
                err == cancel_error(escrow, sender) IN
            IF err # "Ok"
            THEN /\ response' = ErrResponse(err)
                 /\ UNCHANGED <<storage, block_time>>
            ELSE LET done == cancelled_escrow(escrow)
                     idx == update_escrow_indexes(ESCROWS_BY_CREATOR,
                                ESCROWS_BY_BENEFICIARY, ESCROWS_BY_APPROVER, done,
                                FALSE)
                 IN /\ ESCROWS_BY_CREATOR' = idx.by_creator
                    /\ ESCROWS_BY_BENEFICIARY' = idx.by_beneficiary
                    /\ ESCROWS_BY_APPROVER' = idx.by_approver
                    /\ ESCROWS' = MapSave(ESCROWS, escrow_id, done)
                    /\ response' = OkResponse(
                           << Attr("method", "cancel_escrow"),
                              Attr("escrow_id", ToString(escrow_id)),
                              Attr("refunded_to", done.creator) >>,
                           refund_messages(done))
                    /\ UNCHANGED <<ESCROW_COUNTER, block_time>>
    /\ ledger' = ledger (+) Dispatched(call', response')

CancelEscrow ==
    \E sender \in Addrs, escrow_id \in EscrowIds :
        execute_cancel_escrow(sender, escrow_id)

(***************************************************************************)
(* Environment: the chain produces the next block                          *)
(***************************************************************************)
NextBlock ==
    /\ block_time < MaxTime
    /\ block_time' = block_time + 1
    /\ UNCHANGED <<storage, call, before, response, ledger>>

Next == CreateEscrow \/ ApproveRelease \/ CancelEscrow \/ NextBlock

Spec == Init /\ [][Next]_vars

(***************************************************************************)
(* Several escrows: the same entry points, called with the small universe  *)
(* ManyCalls so that up to MaxMany escrows can be explored together.       *)
(***************************************************************************)
CreateEscrowMany ==
    \/ /\ ESCROW_COUNTER < MaxMany
       /\ \E sc \in ManyCreates :
              LET c == sc[2] IN
              execute_create_escrow(sc[1], c.funds, c.beneficiary, c.approver1,
                                    c.approver2, c.approver3, c.description)
    \/ /\ \E c \in ManyFaultyCalls :
              execute_create_escrow("alice", c.funds, c.beneficiary, c.approver1,
                                    c.approver2, c.approver3, c.description)
       /\ ESCROW_COUNTER' <= MaxMany

ApproveReleaseMany ==
    \E sender \in ManySenders, escrow_id \in ManyIds :
        execute_approve_release(sender, escrow_id)

CancelEscrowMany ==
    \E sender \in ManySenders, escrow_id \in ManyIds :
        execute_cancel_escrow(sender, escrow_id)

NextMany == CreateEscrowMany \/ ApproveReleaseMany \/ CancelEscrowMany

SpecMany == Init /\ [][NextMany]_vars

(***************************************************************************)
(* Vocabulary of the properties                                            *)
(***************************************************************************)
\* the last call was of the given kind
Called(type) == call.msg.type = type

\* the last call was of the given kind and addressed an escrow that was
\* stored when the call began
CalledOn(type) ==
    /\ call.msg.type = type
    /\ call.msg.escrow_id \in DOMAIN before.escrows

\* the escrow the last call addressed, as the call found it and as it left it
Old == before.escrows[call.msg.escrow_id]

New == ESCROWS[call.msg.escrow_id]

\* the last call wrote nothing
NothingWritten == Snapshot = before

\* the distinct addresses among the approver slots
ApproverSet(escrow) ==
    {escrow.approver1, escrow.approver2} \cup Range(escrow.approver3)

\* the ids an index holds for an address
IndexIds(index, addr) == Range(LoadOrDefault(index, addr))

(***************************************************************************)
(* C1: for every stored escrow, required_approvals() depends only on the   *)
(* number of distinct addresses among its approver slots: 1 for one        *)
(* distinct address, 2 for two and 2 for three (never 3); with             *)
(* approver1 = approver3 and a different approver2 it is exactly 2.        *)
(***************************************************************************)
C1_RequiredApprovals ==
    \A id \in DOMAIN ESCROWS :
        LET e == ESCROWS[id]
            d == Cardinality(ApproverSet(e)) IN
        /\ d \in 1..3
        /\ d = 1 => required_approvals(e) = 1
        /\ d = 2 => required_approvals(e) = 2
        /\ d = 3 => required_approvals(e) = 2
        /\ (e.approver3 = Some(e.approver1) /\ e.approver2 # e.approver1)
               => required_approvals(e) = 2

\* an escrow with approver1 = approver3 and a separate approver2 is stored
C1_Witness ==
    \E id \in DOMAIN ESCROWS :
        /\ ESCROWS[id].approver3 = Some(ESCROWS[id].approver1)
        /\ ESCROWS[id].approver2 # ESCROWS[id].approver1

(***************************************************************************)
(* C2: a successful ApproveRelease appends the caller to approvals and     *)
(* releases exactly when the new approval count reaches                    *)
(* required_approvals(): then is_completed = true, completed_at = now and  *)
(* exactly one transfer of the full amount to the beneficiary is emitted;  *)
(* otherwise the escrow stays open, completed_at stays unset and nothing   *)
(* is transferred.  With three distinct approvers the first approval       *)
(* reports total_approvals = 1 without a transfer and the second one       *)
(* emits the transfer.                                                     *)
(***************************************************************************)
C2_ApproveEffect ==
    (Called("ApproveRelease") /\ response.result = "Ok") =>
        /\ call.msg.escrow_id \in DOMAIN before.escrows
        /\ LET n == Len(Old.approvals) + 1 IN
           /\ New.approvals = Append(Old.approvals, call.sender)
           /\ response.attributes[4] = Attr("total_approvals", ToString(n))
           /\ IF n >= required_approvals(Old)
              THEN /\ New.is_completed
                   /\ New.completed_at = Some(call.time)
                   /\ response.messages = <<BankSend(Old.beneficiary, Old.amount)>>
              ELSE /\ ~New.is_completed
                   /\ New.completed_at = None
                   /\ response.messages = <<>>
           /\ Cardinality(ApproverSet(Old)) = 3 =>
                  /\ n = 1 => response.messages = <<>>
                  /\ n = 2 => Len(response.messages) = 1

\* the second approval of an escrow with three distinct approvers has just
\* released it, in a later block than the one that created it
C2_Witness ==
    /\ CalledOn("ApproveRelease")
    /\ response.result = "Ok"
    /\ Len(response.messages) = 1
    /\ Cardinality(ApproverSet(New)) = 3
    /\ Len(New.approvals) = 2
    /\ New.completed_at = Some(2)
    /\ New.created_at = 1

(***************************************************************************)
(* C3: once an escrow is completed (by release or by cancellation) every   *)
(* ApproveRelease on it, by any caller, fails with EscrowCompleted and     *)
(* changes nothing.                                                        *)
(***************************************************************************)
C3_CompletedRejectsApprove ==
    (CalledOn("ApproveRelease") /\ Old.is_completed) =>
        /\ response.result = "EscrowCompleted"
        /\ response.messages = <<>>
        /\ NothingWritten

\* an approver's ApproveRelease was rejected with EscrowCompleted on an
\* escrow its creator had cancelled before any approval
C3_Witness ==
    /\ CalledOn("ApproveRelease")
    /\ response.result = "EscrowCompleted"
    /\ Old.is_completed
    /\ Old.approvals = <<>>
    /\ is_approver(Old, call.sender)

(***************************************************************************)
(* C4: on an open escrow, an ApproveRelease from an approver already       *)
(* recorded in approvals fails with AlreadyApproved and changes neither    *)
(* approvals nor is_completed nor completed_at.                            *)
(***************************************************************************)
C4_NoDoubleApproval ==
    ( /\ CalledOn("ApproveRelease")
      /\ ~Old.is_completed
      /\ is_approver(Old, call.sender)
      /\ call.sender \in Range(Old.approvals) )
    => /\ response.result = "AlreadyApproved"
       /\ New = Old

\* a second approval by the same approver was rejected on an open escrow
C4_Witness ==
    /\ CalledOn("ApproveRelease")
    /\ response.result = "AlreadyApproved"
    /\ ~Old.is_completed
    /\ Old.approvals = <<call.sender>>

(***************************************************************************)
(* C5: CancelEscrow succeeds only while approvals is empty.  Approvals,    *)
(* once non-empty, stay non-empty, and every CancelEscrow on an escrow     *)
(* with a recorded approval, by any caller including the creator, fails,   *)
(* changes nothing and emits no refund.                                    *)
(***************************************************************************)
C5_ApprovalForeclosesCancel ==
    /\ \A id \in DOMAIN before.escrows :
           before.escrows[id].approvals # <<>> =>
               /\ id \in DOMAIN ESCROWS
               /\ ESCROWS[id].approvals # <<>>
    /\ (CalledOn("CancelEscrow") /\ Old.approvals # <<>>) =>
           /\ response.result # "Ok"
           /\ response.messages = <<>>
           /\ NothingWritten

\* the creator's CancelEscrow was rejected on an open escrow that holds an
\* approval
C5_Witness ==
    /\ CalledOn("CancelEscrow")
    /\ response.result = "Unauthorized"
    /\ call.sender = Old.creator
    /\ ~Old.is_completed
    /\ Old.approvals # <<>>

(***************************************************************************)
(* C6: a CancelEscrow by the creator on an open escrow without approvals   *)
(* sets is_completed, leaves completed_at unset, emits exactly one         *)
(* transfer of the full amount to the creator and removes the id from the  *)
(* creator index of the creator, the beneficiary index of the beneficiary  *)
(* and the approver index of every distinct approver; the record stays in  *)
(* the store.                                                              *)
(***************************************************************************)
C6_CancelEffect ==
    ( /\ CalledOn("CancelEscrow")
      /\ call.sender = Old.creator
      /\ ~Old.is_completed
      /\ Old.approvals = <<>> )
    => LET id == call.msg.escrow_id IN
       /\ response.result = "Ok"
       /\ response.messages = <<BankSend(Old.creator, Old.amount)>>
       /\ id \in DOMAIN ESCROWS
       /\ New = [Old EXCEPT !.is_completed = TRUE]
       /\ New.completed_at = None
       /\ id \in IndexIds(before.by_creator, Old.creator)
       /\ id \notin IndexIds(ESCROWS_BY_CREATOR, Old.creator)
       /\ id \in IndexIds(before.by_beneficiary, Old.beneficiary)
       /\ id \notin IndexIds(ESCROWS_BY_BENEFICIARY, Old.beneficiary)
       /\ \A a \in ApproverSet(Old) :
              /\ id \in IndexIds(before.by_approver, a)
              /\ id \notin IndexIds(ESCROWS_BY_APPROVER, a)

\* the creator has just cancelled an escrow with three distinct approvers
C6_Witness ==
    /\ CalledOn("CancelEscrow")
    /\ response.result = "Ok"
    /\ New.is_completed
    /\ New.completed_at = None
    /\ Cardinality(ApproverSet(New)) = 3

(***************************************************************************)
(* C7: for an escrow with two distinct approver addresses and no third     *)
(* approver, the first ApproveRelease is recorded but leaves the escrow    *)
(* open and emits no transfer; the approval of the other approver then     *)
(* completes the escrow and emits a transfer of the full amount to the     *)
(* beneficiary.                                                            *)
(***************************************************************************)
TwoApproversNoThird(escrow) ==
    /\ escrow.approver3 = None
    /\ escrow.approver1 # escrow.approver2

C7_TwoApproversNeedBoth ==
    ( /\ CalledOn("ApproveRelease")
      /\ response.result = "Ok"
      /\ TwoApproversNoThird(Old) )
    => /\ Len(Old.approvals) \in {0, 1}
       /\ New.approvals = Append(Old.approvals, call.sender)
       /\ Len(Old.approvals) = 0 =>
              /\ ~New.is_completed
              /\ response.messages = <<>>
       /\ Len(Old.approvals) = 1 =>
              /\ Old.approvals[1] # call.sender
              /\ New.is_completed
              /\ response.messages = <<BankSend(Old.beneficiary, Old.amount)>>

\* the second of the two approvers has just released the escrow
C7_Witness ==
    /\ CalledOn("ApproveRelease")
    /\ response.result = "Ok"
    /\ TwoApproversNoThird(Old)
    /\ Len(New.approvals) = 2
    /\ New.is_completed
    /\ Len(response.messages) = 1

\* C7 as stated: with two distinct approvers and no third one, a single
\* ApproveRelease from either approver completes the escrow and emits the
\* transfer of the full amount to the beneficiary
C7_SingleApprovalReleases ==
    ( /\ CalledOn("ApproveRelease")
      /\ TwoApproversNoThird(Old)
      /\ ~Old.is_completed
      /\ Old.approvals = <<>>
      /\ is_approver(Old, call.sender) )
    => /\ response.result = "Ok"
       /\ New.is_completed
       /\ response.messages = <<BankSend(Old.beneficiary, Old.amount)>>

(***************************************************************************)
(* C8: an ApproveRelease sent by the creator of an open escrow, when the   *)
(* creator fills one of its approver slots, fails with CannotSelfApprove   *)
(* and records no approval.                                                *)
(***************************************************************************)
CreatorApproves ==
    /\ CalledOn("ApproveRelease")
    /\ ~Old.is_completed
    /\ call.sender = Old.creator
    /\ is_approver(Old, call.sender)
    /\ call.sender \notin Range(Old.approvals)

C8_CreatorCannotSelfApprove ==
    CreatorApproves =>
        /\ response.result = "CannotSelfApprove"
        /\ New.approvals = Old.approvals

BadFunds(funds) ==
    IF Len(funds) # 1 THEN TRUE ELSE funds[1].amount = 0

C10_InsufficientFunds ==
    (Called("CreateEscrow") /\ BadFunds(call.funds)) =>
        /\ response.result = "InsufficientFunds"
        /\ response.messages = <<>>
        /\ NothingWritten

\* a CreateEscrow with two denominations and a malformed beneficiary was
\* rejected with InsufficientFunds
C10_Witness ==
    /\ Called("CreateEscrow")
    /\ Len(call.funds) = 2
    /\ call.msg.beneficiary = Malformed
    /\ response.result = "InsufficientFunds"
    /\ NothingWritten

(***************************************************************************)
(* query: GetEscrow, GetEscrowsByAddress, GetAllEscrows.  The queries read *)
(* the storage and write nothing: they are functions of the state.         *)
(***************************************************************************)
\* limit.unwrap_or(10)
DEFAULT_LIMIT == 10

\* the limits and the start_after values of the queries that are evaluated
Limits == {None} \cup {Some(n) : n \in 0..MaxMany}

StartAfters == {None} \cup {Some(n) : n \in 0..MaxMany}

unwrap_or(opt, default) == IF opt = None THEN default ELSE opt[1]

\* Iterator::take(n)
Take(s, n) == SubSeq(s, 1, IF n < Len(s) THEN n ELSE Len(s))

\* Vec<u64>::sort
RECURSIVE SortIdsInsert(_, _)
SortIdsInsert(x, s) ==
    IF s = <<>> THEN <<x>>
    ELSE IF x <= Head(s) THEN <<x>> \o s
    ELSE <<Head(s)>> \o SortIdsInsert(x, Tail(s))

RECURSIVE SortIds(_)
SortIds(s) == IF s = <<>> THEN <<>> ELSE SortIdsInsert(Head(s), SortIds(Tail(s)))

\* sort() alone: an id filed under several roles stays several times
sorted_unique_ids_no_dedup(ids) == SortIds(ids)

\* escrow_ids.sort(); escrow_ids.dedup()
sorted_unique_ids(ids) == Dedup(sorted_unique_ids_no_dedup(ids))

\* filter(|&id| id >= start)
filter_after_inclusive(ids, start) == SelectSeq(ids, LAMBDA id : id >= start)

\* filter(|&id| id > start)
filter_after(ids, start) == SelectSeq(ids, LAMBDA id : id > start)

\* Map::range(start, None, Order::Ascending) with start = Bound::exclusive
RECURSIVE range_ascending(_, _)
range_ascending(keys, start_after) ==
    LET from == {k \in keys : start_after = None \/ k > start_after[1]} IN
    IF from = {} THEN <<>>
    ELSE LET least == CHOOSE k \in from : \A other \in from : k <= other
         IN <<least>> \o range_ascending(from \ {least}, Some(least))

escrow_to_response(escrow) ==
    [id |-> escrow.id,
     creator |-> escrow.creator,
     beneficiary |-> escrow.beneficiary,
     amount |-> escrow.amount,
     approver1 |-> escrow.approver1,
     approver2 |-> escrow.approver2,
     approver3 |-> escrow.approver3,
     description |-> escrow.description,
     approvals |-> escrow.approvals,
     is_completed |-> escrow.is_completed,
     created_at |-> escrow.created_at,
     completed_at |-> escrow.completed_at]

OkList(escrows) == [result |-> "Ok", escrows |-> escrows]

\* for id in filtered_ids { if let Ok(escrow) = ESCROWS.load(id) { push } }
RECURSIVE load_each(_)
load_each(ids) ==
    IF ids = <<>> THEN <<>>
    ELSE (IF Head(ids) \in DOMAIN ESCROWS
          THEN <<escrow_to_response(ESCROWS[Head(ids)])>>
          ELSE <<>>) \o load_each(Tail(ids))

query_escrow(escrow_id) ==
    IF escrow_id \in DOMAIN ESCROWS
    THEN [result |-> "Ok", escrow |-> escrow_to_response(ESCROWS[escrow_id])]
    ELSE [result |-> "Std(NotFound)"]

query_escrows_by_address(address, start_after, limit) ==
    IF ~addr_validate(address) THEN [result |-> "Std(GenericErr)"]
    ELSE LET lim == unwrap_or(limit, DEFAULT_LIMIT)
             start == unwrap_or(start_after, 0)
             escrow_ids == LoadOrDefault(ESCROWS_BY_CREATOR, address)
                           \o LoadOrDefault(ESCROWS_BY_BENEFICIARY, address)
                           \o LoadOrDefault(ESCROWS_BY_APPROVER, address)
             filtered_ids == Take(filter_after(sorted_unique_ids(escrow_ids), start), lim)
         IN OkList(load_each(filtered_ids))

query_all_escrows(start_after, limit) ==
    LET lim == unwrap_or(limit, DEFAULT_LIMIT)
        ids == Take(range_ascending(DOMAIN ESCROWS, start_after), lim)
    IN OkList([i \in 1..Len(ids) |-> escrow_to_response(ESCROWS[ids[i]])])

(***************************************************************************)
(* Vocabulary of the properties: history                                   *)
(***************************************************************************)
\* the number of transfers the chain received from calls of the given
\* ExecuteMsg
TransfersFrom(msg) ==
    LET hits == {e \in BagToSet(ledger) : e.cause = msg}
        RECURSIVE Total(_)
        Total(S) == IF S = {} THEN 0
                    ELSE LET e == CHOOSE x \in S : TRUE
                         IN CopiesIn(e, ledger) + Total(S \ {e})
    IN Total(hits)

\* the escrow was completed by a release, by a cancellation
Released(id) == \E e \in DOMAIN ledger : e.cause = ApproveReleaseMsg(id)

Cancelled(id) == \E e \in DOMAIN ledger : e.cause = CancelEscrowMsg(id)

(***************************************************************************)
(* C11: a CreateEscrow with valid funding and a malformed beneficiary      *)
(* fails with InvalidBeneficiary, one with a malformed approver1,          *)
(* approver2 or approver3 fails with InvalidApprover; no escrow is created *)
(* and the counter is unchanged.                                           *)
(***************************************************************************)
MalformedApprover(msg) ==
    \/ ~addr_validate(msg.approver1)
    \/ ~addr_validate(msg.approver2)
    \/ msg.approver3 # None /\ ~addr_validate(msg.approver3[1])

C11_InvalidAddressErrors ==
    (Called("CreateEscrow") /\ ~BadFunds(call.funds)) =>
        /\ ~addr_validate(call.msg.beneficiary) =>
               /\ response.result = "InvalidBeneficiary"
               /\ NothingWritten
        /\ (addr_validate(call.msg.beneficiary) /\ MalformedApprover(call.msg)) =>
               /\ response.result = "InvalidApprover"
               /\ NothingWritten

(***************************************************************************)
(* C12: every CreateEscrow, ApproveRelease or CancelEscrow that returns an *)
(* error leaves the counter, every record and the three indexes as they    *)
(* were and emits no transfer.                                             *)
(***************************************************************************)
C12_ErrorsWriteNothing ==
    response.result # "Ok" =>
        /\ NothingWritten
        /\ response.messages = <<>>
        /\ response.attributes = <<>>

\* a CreateEscrow with a malformed third approver failed while an escrow
\* with a recorded approval was stored
C12_Witness ==
    /\ Called("CreateEscrow")
    /\ call.msg.approver3 = Some(Malformed)
    /\ response.result # "Ok"
    /\ ESCROW_COUNTER = 1
    /\ ESCROWS[1].approvals # <<>>
    /\ NothingWritten

(***************************************************************************)
(* C13: the n-th successful CreateEscrow is assigned id n, starting at 1.  *)
(* The counter grows by one with every successful creation and with        *)
(* nothing else, the stored keys are exactly 1..counter, every record      *)
(* carries its key as id, a failed call consumes no id, and a creation     *)
(* neither deletes nor overwrites an earlier record.                       *)
(***************************************************************************)
C13_IdsAreDense ==
    /\ DOMAIN ESCROWS = 1..ESCROW_COUNTER
    /\ \A id \in DOMAIN ESCROWS : ESCROWS[id].id = id
    /\ DOMAIN before.escrows = 1..before.counter
    /\ IF Called("CreateEscrow") /\ response.result = "Ok"
       THEN /\ ESCROW_COUNTER = before.counter + 1
            /\ response.attributes[2] = Attr("escrow_id", ToString(ESCROW_COUNTER))
            /\ ESCROWS[ESCROW_COUNTER].creator = call.sender
            /\ ESCROWS[ESCROW_COUNTER].approvals = <<>>
            /\ \A id \in DOMAIN before.escrows : ESCROWS[id] = before.escrows[id]
       ELSE ESCROW_COUNTER = before.counter

\* the second escrow was created, by another creator than the first, right
\* after the first one had been cancelled
C13_Witness ==
    /\ Called("CreateEscrow")
    /\ response.result = "Ok"
    /\ ESCROW_COUNTER = 2
    /\ ESCROWS[2].id = 2
    /\ ESCROWS[1].creator # ESCROWS[2].creator
    /\ Cancelled(1)

(***************************************************************************)
(* Vocabulary of the properties: queries                                   *)
(***************************************************************************)
\* the ids of a page, in the order of the page
PageIds(list) == [i \in 1..Len(list.escrows) |-> list.escrows[i].id]

\* the ascending sequence of a set of ids
RECURSIVE Ascending(_)
Ascending(ids) ==
    IF ids = {} THEN <<>>
    ELSE LET least == CHOOSE k \in ids : \A other \in ids : k <= other
         IN <<least>> \o Ascending(ids \ {least})

\* more pages than any paging through the stored ids can need
MaxPages == MaxMany + 2

\* the concatenated pages of GetAllEscrows, each page started after the
\* last id of the page before, up to the first empty page
RECURSIVE PagedAll(_, _, _)
PagedAll(start_after, limit, pages) ==
    LET page == PageIds(query_all_escrows(start_after, limit)) IN
    IF page = <<>> \/ pages = 0 THEN <<>>
    ELSE page \o PagedAll(Some(page[Len(page)]), limit, pages - 1)

\* the same of GetEscrowsByAddress
RECURSIVE PagedByAddress(_, _, _, _)
PagedByAddress(address, start_after, limit, pages) ==
    LET page == PageIds(query_escrows_by_address(address, start_after, limit)) IN
    IF page = <<>> \/ pages = 0 THEN <<>>
    ELSE page \o PagedByAddress(address, Some(page[Len(page)]), limit, pages - 1)

\* the ids filed under the address in any of the three indexes
IndexedIds(address) ==
    IndexIds(ESCROWS_BY_CREATOR, address)
    \cup IndexIds(ESCROWS_BY_BENEFICIARY, address)
    \cup IndexIds(ESCROWS_BY_APPROVER, address)

\* the address is the creator, the beneficiary or an approver of the escrow
HasRole(address, escrow) ==
    \/ escrow.creator = address
    \/ escrow.beneficiary = address
    \/ address \in ApproverSet(escrow)

PagingLimits == Limits \ {Some(0)}

(***************************************************************************)
(* C14: in any state and for any limit >= 1 (or the default), paging       *)
(* through GetAllEscrows or GetEscrowsByAddress from no start_after, each  *)
(* page started after the last id of the page before, until a page is      *)
(* empty, yields the ascending duplicate-free sequence of all stored ids,  *)
(* respectively of the union of the address's three index lists.           *)
(***************************************************************************)
C14_PagingIsExhaustive ==
    \A limit \in PagingLimits :
        /\ PagedAll(None, limit, MaxPages) = Ascending(DOMAIN ESCROWS)
        /\ \A address \in Addrs :
               PagedByAddress(address, None, limit, MaxPages)
                   = Ascending(IndexedIds(address))

\* two escrows are stored and filed under bob in more than one index, so
\* that limit 1 needs two pages and then an empty one
C14_Witness ==
    /\ DOMAIN ESCROWS = {1, 2}
    /\ IndexIds(ESCROWS_BY_BENEFICIARY, "bob") = {1, 2}
    /\ IndexIds(ESCROWS_BY_APPROVER, "bob") = {1, 2}
    /\ PageIds(query_escrows_by_address("bob", None, Some(1))) = <<1>>
    /\ PageIds(query_escrows_by_address("bob", Some(1), Some(1))) = <<2>>
    /\ PageIds(query_escrows_by_address("bob", Some(2), Some(1))) = <<>>
    /\ PageIds(query_all_escrows(Some(1), Some(1))) = <<2>>

(***************************************************************************)
(* C15: GetEscrowsByAddress(a, start_after, limit) returns, ascending and  *)
(* each once, the first `limit` escrows with id > start_after (default 0)  *)
(* among exactly the escrows in which a is creator, beneficiary or         *)
(* approver and which were not cancelled.  A released escrow is still      *)
(* returned; a cancelled one is returned for no address, although          *)
(* GetAllEscrows and GetEscrow still return it.                            *)
(***************************************************************************)
C15_ByAddressListsLiveRoles ==
    /\ \A address \in Addrs, start_after \in StartAfters, limit \in Limits :
           LET matching == {id \in DOMAIN ESCROWS :
                                /\ id > unwrap_or(start_after, 0)
                                /\ HasRole(address, ESCROWS[id])
                                /\ ~Cancelled(id)}
               expected == Take(Ascending(matching), unwrap_or(limit, DEFAULT_LIMIT))
           IN query_escrows_by_address(address, start_after, limit)
                  = OkList([i \in 1..Len(expected) |-> ESCROWS[expected[i]]])
    /\ \A id \in DOMAIN ESCROWS :
           /\ query_escrow(id) = [result |-> "Ok", escrow |-> ESCROWS[id]]
           /\ Contains(query_all_escrows(None, None).escrows, ESCROWS[id])

\* escrow 1 was cancelled and escrow 2 released; bob, beneficiary and
\* approver of both, is returned escrow 2 once and escrow 1 not at all
C15_Witness ==
    /\ DOMAIN ESCROWS = {1, 2}
    /\ Cancelled(1)
    /\ Released(2)
    /\ HasRole("bob", ESCROWS[1])
    /\ ESCROWS[2].beneficiary = "bob"
    /\ "bob" \in ApproverSet(ESCROWS[2])
    /\ PageIds(query_escrows_by_address("bob", None, None)) = <<2>>
    /\ PageIds(query_all_escrows(None, None)) = <<1, 2>>

(***************************************************************************)
(* Vocabulary of the properties: payments                                  *)
(***************************************************************************)
\* the ledger entries caused by calls that addressed the escrow
PaymentsOf(id) ==
    {e \in DOMAIN ledger :
        e.cause \in {ApproveReleaseMsg(id), CancelEscrowMsg(id)}}

\* the number of transfers in a set of ledger entries, and their sum
RECURSIVE TransferCount(_)
TransferCount(entries) ==
    IF entries = {} THEN 0
    ELSE LET e == CHOOSE x \in entries : TRUE
         IN CopiesIn(e, ledger) + TransferCount(entries \ {e})

RECURSIVE TransferSum(_)
TransferSum(entries) ==
    IF entries = {} THEN 0
    ELSE LET e == CHOOSE x \in entries : TRUE
         IN CopiesIn(e, ledger) * e.send.amount[1].amount
            + TransferSum(entries \ {e})

RECURSIVE DepositSum(_)
DepositSum(ids) ==
    IF ids = {} THEN 0
    ELSE LET id == CHOOSE x \in ids : TRUE
         IN ESCROWS[id].amount.amount + DepositSum(ids \ {id})

(***************************************************************************)
(* C16: over every sequence of commands at most one transfer is ever       *)
(* emitted for an escrow: one release to the beneficiary or one refund to  *)
(* the creator, never both and never twice, of exactly the amount          *)
(* deposited at creation; the total paid out never exceeds the total       *)
(* deposited.                                                              *)
(***************************************************************************)
C16_AtMostOnePayout ==
    /\ \A e \in DOMAIN ledger :
           /\ e.cause.type \in {"ApproveRelease", "CancelEscrow"}
           /\ e.cause.escrow_id \in DOMAIN ESCROWS
    /\ \A id \in DOMAIN ESCROWS :
           /\ TransferCount(PaymentsOf(id)) <= 1
           /\ \A e \in PaymentsOf(id) :
                  e.send = BankSend(IF e.cause.type = "ApproveRelease"
                                    THEN ESCROWS[id].beneficiary
                                    ELSE ESCROWS[id].creator,
                                    ESCROWS[id].amount)
    /\ TransferSum(DOMAIN ledger) <= DepositSum(DOMAIN ESCROWS)

\* the escrow was released to the beneficiary, and afterwards its creator
\* asked for a refund and got none
C16_Witness ==
    /\ CalledOn("CancelEscrow")
    /\ call.sender = Old.creator
    /\ Released(call.msg.escrow_id)
    /\ response.messages = <<>>
    /\ TransferSum(DOMAIN ledger) = 1000

(***************************************************************************)
(* C17: completed_at is set if and only if the escrow was completed by     *)
(* release; then is_completed holds and the approvals reach                *)
(* required_approvals().  An escrow completed by cancellation has          *)
(* is_completed = true, completed_at unset and no approvals.               *)
(***************************************************************************)
C17_CompletedAtMarksRelease ==
    \A id \in DOMAIN ESCROWS :
        LET escrow == ESCROWS[id] IN
        /\ escrow.completed_at # None <=> Released(id)
        /\ escrow.completed_at # None =>
               /\ escrow.is_completed
               /\ Len(escrow.approvals) >= required_approvals(escrow)
        /\ Cancelled(id) =>
               /\ escrow.is_completed
               /\ escrow.completed_at = None
               /\ escrow.approvals = <<>>
        /\ escrow.is_completed <=> (Released(id) \/ Cancelled(id))

\* one escrow was cancelled at a later block than it was created, and after
\* that an approver tried to approve it
C17_Witness ==
    /\ CalledOn("ApproveRelease")
    /\ Cancelled(call.msg.escrow_id)
    /\ is_approver(New, call.sender)
    /\ New.created_at < call.time
    /\ New.completed_at = None

(***************************************************************************)
(* C18: every escrow's approvals list holds no address twice and only      *)
(* addresses that are its approver1, approver2 or approver3; a call leaves *)
(* the list as it was or appends to it.                                    *)
(***************************************************************************)
C18_ApprovalsAppendOnly ==
    /\ \A id \in DOMAIN ESCROWS :
           LET approvals == ESCROWS[id].approvals IN
           /\ \A i, j \in 1..Len(approvals) : approvals[i] = approvals[j] => i = j
           /\ Range(approvals) \subseteq ApproverSet(ESCROWS[id])
    /\ \A id \in DOMAIN before.escrows :
           LET was == before.escrows[id].approvals
               is == ESCROWS[id].approvals
           IN /\ Len(was) <= Len(is)
              /\ SubSeq(is, 1, Len(was)) = was
              /\ Len(is) <= Len(was) + 1

\* the second of three distinct approvers approved after the first: the list
\* is those two, in the order of their calls
C18_Witness ==
    /\ CalledOn("ApproveRelease")
    /\ Cardinality(ApproverSet(New)) = 3
    /\ Len(Old.approvals) = 1
    /\ New.approvals = Append(Old.approvals, call.sender)
    /\ New.approvals[1] # New.approvals[2]
    /\ Range(New.approvals) # ApproverSet(New)

(***************************************************************************)
(* C19: is_completed is one-way and terminal: once it is true, no command  *)
(* changes any field of the record; and creator, beneficiary, amount, the  *)
(* approver slots, description and created_at never change after creation. *)
(***************************************************************************)
C19_CompletedIsTerminal ==
    \A id \in DOMAIN before.escrows :
        LET was == before.escrows[id]
            is == ESCROWS[id]
        IN /\ id \in DOMAIN ESCROWS
           /\ was.is_completed => is = was
           /\ is.id = was.id
           /\ is.creator = was.creator
           /\ is.beneficiary = was.beneficiary
           /\ is.amount = was.amount
           /\ is.approver1 = was.approver1
           /\ is.approver2 = was.approver2
           /\ is.approver3 = was.approver3
           /\ is.description = was.description
           /\ is.created_at = was.created_at

\* the third approver of a released escrow approved, at a later block than
\* the release, and the record stayed as it was
C19_Witness ==
    /\ CalledOn("ApproveRelease")
    /\ Old.is_completed
    /\ Old.completed_at # None
    /\ Old.completed_at # Some(call.time)
    /\ is_approver(Old, call.sender)
    /\ ~has_approved(Old, call.sender)
    /\ New = Old

(***************************************************************************)
(* C20: ApproveRelease checks existence, completion, authorization and     *)
(* duplicate approval in this order and reports the first one violated: an *)
(* unknown id is not found; on a completed escrow every caller gets        *)
(* EscrowCompleted; on an open escrow a caller in no approver slot gets    *)
(* Unauthorized; only an approver of an open escrow who already approved   *)
(* gets AlreadyApproved.                                                   *)
(***************************************************************************)
C20_ApproveCheckOrder ==
    Called("ApproveRelease") =>
        IF call.msg.escrow_id \notin DOMAIN before.escrows
        THEN response.result = "Std(NotFound)"
        ELSE /\ Old.is_completed => response.result = "EscrowCompleted"
             /\ (~Old.is_completed /\ call.sender \notin ApproverSet(Old)) =>
                    response.result = "Unauthorized"
             /\ response.result = "AlreadyApproved" <=>
                    /\ ~Old.is_completed
                    /\ call.sender \in ApproverSet(Old)
                    /\ Contains(Old.approvals, call.sender)
             /\ response.result \in {"EscrowCompleted", "Unauthorized",
                                     "AlreadyApproved", "Ok"}

\* an approver who had approved a since released escrow approved again and
\* was told that the escrow is completed, not that the approval is a duplicate
C20_Witness ==
    /\ CalledOn("ApproveRelease")
    /\ Old.is_completed
    /\ Contains(Old.approvals, call.sender)
    /\ response.result = "EscrowCompleted"

(***************************************************************************)
(* C21: CancelEscrow checks existence, caller-is-creator, completion and   *)
(* empty approvals in this order and reports the first one violated: any   *)
(* caller other than the creator gets Unauthorized, even on a completed    *)
(* escrow; the creator gets EscrowCompleted on any completed escrow,       *)
(* released or cancelled; the creator gets Unauthorized only on an open    *)
(* escrow with at least one approval.                                      *)
(***************************************************************************)
C21_CancelCheckOrder ==
    Called("CancelEscrow") =>
        IF call.msg.escrow_id \notin DOMAIN before.escrows
        THEN response.result = "Std(NotFound)"
        ELSE /\ call.sender # Old.creator => response.result = "Unauthorized"
             /\ (call.sender = Old.creator /\ Old.is_completed) =>
                    response.result = "EscrowCompleted"
             /\ (call.sender = Old.creator /\ response.result = "Unauthorized") <=>
                    /\ call.sender = Old.creator
                    /\ ~Old.is_completed
                    /\ Old.approvals # <<>>
             /\ response.result = "Ok" <=>
                    /\ call.sender = Old.creator
                    /\ ~Old.is_completed
                    /\ Old.approvals = <<>>

\* someone else than the creator asked to cancel an escrow that its creator
\* had cancelled before, and was told Unauthorized
C21_Witness ==
    /\ CalledOn("CancelEscrow")
    /\ call.sender # Old.creator
    /\ Cancelled(call.msg.escrow_id)
    /\ Old.is_completed
    /\ response.result = "Unauthorized"

(***************************************************************************)
(* C22: an escrow is open (is_completed = false) if and only if it was not *)
(* cancelled and has fewer approvals than required_approvals(); the        *)
(* approvals never exceed required_approvals(), so a released escrow has   *)
(* exactly that many, and with three distinct approvers the third is never *)
(* recorded.                                                               *)
(***************************************************************************)
C22_OpenIffBelowQuorum ==
    \A id \in DOMAIN ESCROWS :
        LET escrow == ESCROWS[id] IN
        /\ ~escrow.is_completed <=>
               /\ ~Cancelled(id)
               /\ Len(escrow.approvals) < required_approvals(escrow)
        /\ Len(escrow.approvals) <= required_approvals(escrow)
        /\ Released(id) => Len(escrow.approvals) = required_approvals(escrow)
        /\ Cardinality(ApproverSet(escrow)) = 3 =>
               Range(escrow.approvals) # ApproverSet(escrow)

\* the third of three distinct approvers called after the release and is not
\* in the list, which holds the two required approvals
C22_Witness ==
    /\ CalledOn("ApproveRelease")
    /\ Cardinality(ApproverSet(New)) = 3
    /\ Released(call.msg.escrow_id)
    /\ ~Contains(New.approvals, call.sender)
    /\ call.sender \in ApproverSet(New)
    /\ Len(New.approvals) = required_approvals(New)
    /\ response.result # "Ok"

(***************************************************************************)
(* Vocabulary of the properties: indexes                                   *)
(***************************************************************************)
\* the addresses an index has a list for, and the valid addresses
IndexKeys ==
    Addrs \cup DOMAIN ESCROWS_BY_CREATOR \cup DOMAIN ESCROWS_BY_BENEFICIARY
          \cup DOMAIN ESCROWS_BY_APPROVER

\* the stored escrows that were not cancelled
LiveIds == {id \in DOMAIN ESCROWS : ~Cancelled(id)}

NoDuplicates(s) == \A i, j \in 1..Len(s) : s[i] = s[j] => i = j

\* the list the index held for the address when the last call began
OldList(index, address) == LoadOrDefault(before[index], address)

\* the list grew by nothing or by the one id, at its end
AppendedAtMost(was, is, id) == is = was \/ is = Append(was, id)

\* the list lost the id and nothing else
RemovedOnly(was, is, id) ==
    /\ Range(is) = Range(was) \ {id}
    /\ Len(is) = Len(was) - Cardinality(Range(was) \cap {id})
    /\ \A i, j \in 1..Len(is) :
           i < j => \E k, l \in 1..Len(was) : k < l /\ was[k] = is[i] /\ was[l] = is[j]

(***************************************************************************)
(* C23: the three indexes are exactly the projection of the non-cancelled  *)
(* records: id is in the creator index of a iff escrow id exists, was not  *)
(* cancelled and has creator a; likewise the beneficiary index; and the    *)
(* approver index iff a is in one of its approver slots.  No index list    *)
(* holds an id twice.                                                      *)
(***************************************************************************)
C23_IndexesProjectLiveRecords ==
    \A a \in IndexKeys :
        /\ IndexIds(ESCROWS_BY_CREATOR, a)
               = {id \in LiveIds : ESCROWS[id].creator = a}
        /\ IndexIds(ESCROWS_BY_BENEFICIARY, a)
               = {id \in LiveIds : ESCROWS[id].beneficiary = a}
        /\ IndexIds(ESCROWS_BY_APPROVER, a)
               = {id \in LiveIds : is_approver(ESCROWS[id], a)}
        /\ NoDuplicates(LoadOrDefault(ESCROWS_BY_CREATOR, a))
        /\ NoDuplicates(LoadOrDefault(ESCROWS_BY_BENEFICIARY, a))
        /\ NoDuplicates(LoadOrDefault(ESCROWS_BY_APPROVER, a))

\* escrow 1 was cancelled and escrow 2 names bob in both approver slots: the
\* approver index of bob holds 2 once and 1 no more, and the creator index
\* of the creator of escrow 1 does not hold 1
C23_Witness ==
    /\ DOMAIN ESCROWS = {1, 2}
    /\ Cancelled(1)
    /\ ESCROWS[2].approver1 = "bob"
    /\ ESCROWS[2].approver2 = "bob"
    /\ LoadOrDefault(ESCROWS_BY_APPROVER, "bob") = <<2>>
    /\ 1 \notin IndexIds(ESCROWS_BY_CREATOR, ESCROWS[1].creator)
    /\ ESCROWS[1].creator \in DOMAIN ESCROWS_BY_CREATOR

(***************************************************************************)
(* C24: a successful ApproveRelease or CancelEscrow on escrow id leaves    *)
(* the counter and every other record unchanged; ApproveRelease, also one  *)
(* that releases, leaves the three indexes unchanged; CancelEscrow changes *)
(* the indexes only by removing id; CreateEscrow changes no existing       *)
(* record and only appends the new id to index lists.                      *)
(***************************************************************************)
C24_FrameEffects ==
    response.result = "Ok" =>
        /\ (Called("ApproveRelease") \/ Called("CancelEscrow")) =>
               /\ ESCROW_COUNTER = before.counter
               /\ DOMAIN ESCROWS = DOMAIN before.escrows
               /\ \A other \in DOMAIN ESCROWS \ {call.msg.escrow_id} :
                      ESCROWS[other] = before.escrows[other]
        /\ Called("ApproveRelease") =>
               \A a \in IndexKeys :
                   /\ LoadOrDefault(ESCROWS_BY_CREATOR, a) = OldList("by_creator", a)
                   /\ LoadOrDefault(ESCROWS_BY_BENEFICIARY, a) = OldList("by_beneficiary", a)
                   /\ LoadOrDefault(ESCROWS_BY_APPROVER, a) = OldList("by_approver", a)
        /\ Called("CancelEscrow") =>
               \A a \in IndexKeys :
                   /\ RemovedOnly(OldList("by_creator", a),
                                  LoadOrDefault(ESCROWS_BY_CREATOR, a), call.msg.escrow_id)
                   /\ RemovedOnly(OldList("by_beneficiary", a),
                                  LoadOrDefault(ESCROWS_BY_BENEFICIARY, a), call.msg.escrow_id)
                   /\ RemovedOnly(OldList("by_approver", a),
                                  LoadOrDefault(ESCROWS_BY_APPROVER, a), call.msg.escrow_id)
        /\ Called("CreateEscrow") =>
               /\ \A id \in DOMAIN before.escrows :
                      id \in DOMAIN ESCROWS /\ ESCROWS[id] = before.escrows[id]
               /\ \A a \in IndexKeys :
                      /\ AppendedAtMost(OldList("by_creator", a),
                                        LoadOrDefault(ESCROWS_BY_CREATOR, a), ESCROW_COUNTER)
                      /\ AppendedAtMost(OldList("by_beneficiary", a),
                                        LoadOrDefault(ESCROWS_BY_BENEFICIARY, a), ESCROW_COUNTER)
                      /\ AppendedAtMost(OldList("by_approver", a),
                                        LoadOrDefault(ESCROWS_BY_APPROVER, a), ESCROW_COUNTER)

\* the first of two escrows was cancelled: the second record is as it was and
\* the beneficiary list of bob went from 1, 2 to 2
C24_Witness ==
    /\ Called("CancelEscrow")
    /\ response.result = "Ok"
    /\ call.msg.escrow_id = 1
    /\ DOMAIN ESCROWS = {1, 2}
    /\ ESCROWS[2] = before.escrows[2]
    /\ OldList("by_beneficiary", "bob") = <<1, 2>>
    /\ LoadOrDefault(ESCROWS_BY_BENEFICIARY, "bob") = <<2>>

====
